---- MODULE Spec2Model ----
(***************************************************************************)
(* Model of the Thinking Assistant API (src/main.py, src/schemas.py).      *)
(*                                                                         *)
(* The document store holds one sequence per collection, in insertion      *)
(* order.  Every endpoint is a request served by a worker; a handler that  *)
(* makes several store calls is one step per store call, so that requests  *)
(* interleave between calls, as they do in the thread pool that runs the   *)
(* synchronous endpoints.                                                  *)
(* Timestamps are kept at the granularity the code reads them at: the UTC  *)
(* day of a session's created_at.  updated_at is written and never read.   *)
(***************************************************************************)
EXTENDS Integers, Sequences, FiniteSets, TLC

\* ---------------------------------------------------------------- bounds
MaxAccounts == 2
MaxSessions == 2
MaxMessages == 6
MaxDay == 1
MaxIdeas == 4
MaxAnswered == 2

\* ---------------------------------------------------------------- values
\* Python's None, and a field a document does not have (a Mongo equality
\* match treats the two alike).
NoneVal == "None"

\* Two requests may be in service at once.
Workers == {"w1", "w2"}
Clients == {"client-a", "client-b"}
Emails == {"a@x.io", "b@x.io"}
CustomerIds == {"cus_1"}
SubscriptionIds == {"sub_1"}
Statuses == {"active", "trialing", "canceled"}

\* Text is a sequence of characters.  The answers a client may submit:
\* "Email video", "machine", "learning focus", "Connect blog".
Answers ==
    {<<"E", "m", "a", "i", "l", " ", "v", "i", "d", "e", "o">>,
     <<"m", "a", "c", "h", "i", "n", "e">>,
     <<"l", "e", "a", "r", "n", "i", "n", "g", " ", "f", "o", "c", "u", "s">>,
     <<"C", "o", "n", "n", "e", "c", "t", " ", "b", "l", "o", "g">>}

\* The answer of the requests whose answer text plays no part: "machine".
AnAnswer == <<"m", "a", "c", "h", "i", "n", "e">>

Category == {"business", "content", "general"}
Plan == {"free", "pro"}

QUESTION_BANK ==
    [c \in Category |->
        CASE c = "business" ->
               << "What problem do you want to solve?",
                  "Who exactly has this problem (your target user)?",
                  "How are they solving it today?",
                  "What unique strengths or resources do you have?",
                  "What constraints do you have (time, budget, skills)?" >>
          [] c = "content" ->
               << "What topic or niche are you most excited about?",
                  "Who is your ideal audience?",
                  "What formats do you enjoy creating (video, writing, audio, etc.)?",
                  "How often can you realistically publish?",
                  "What platforms do you want to prioritize?" >>
          [] OTHER ->
               << "Describe the challenge in one sentence.",
                  "What would a great outcome look like?",
                  "What is the biggest obstacle right now?",
                  "What resources or help do you have access to?",
                  "What is the next smallest step you could take?" >>]

\* ---------------------------------------------------------------- state
VARIABLES
    account,    \* the "account" collection
    session,    \* the "session" collection; a session's _id is its position
    message,    \* the "message" collection
    idea,       \* the "idea" collection; an idea's _id is its position
    today,      \* the current UTC day
    req,        \* per worker: the request it is serving and its locals
    resp        \* the response the step just taken sent, NoResp when it sent none

stores == <<account, session, message, idea>>
vars == <<account, session, message, idea, today, req, resp>>

\* ---------------------------------------------------------------- schemas
Account(client_id, plan, email) ==
    [client_id |-> client_id, plan |-> plan, email |-> email,
     stripe_customer_id |-> NoneVal, stripe_subscription_id |-> NoneVal,
     subscription_status |-> NoneVal]

Session(category, client_id, plan, created_at) ==
    [category |-> category, step |-> 0, client_id |-> client_id,
     plan |-> plan, created_at |-> created_at]

\* Mutant of Message: the step after the one loaded is recorded.
MessageNextStep(session_id, step, question, answer) ==
    [session_id |-> session_id, step |-> step + 1, question |-> question,
     answer |-> answer]

Message(session_id, step, question, answer) ==
    [session_id |-> session_id, step |-> step, question |-> question,
     answer |-> answer]

\* An idea's summary, steps and tags are those of the template its title names.
Idea(session_id, title, category) ==
    [session_id |-> session_id, title |-> title, category |-> category]

\* ---------------------------------------------------------------- store calls
\* find_one: of the positions that match a filter, the first; 0 for None.
FirstOf(matching) ==
    IF matching = {} THEN 0
    ELSE CHOOSE i \in matching : \A j \in matching : i <= j

\* {"$set": set} applied to a document.
Merge(doc, set) ==
    [k \in DOMAIN doc |-> IF k \in DOMAIN set THEN set[k] ELSE doc[k]]

\* An empty "$set" (but for updated_at, which nothing reads).
NoFields == << >>

\* collection.update_one(filter, {"$set": set}), i the first match of filter.
UpdateOne(col, i, set) ==
    IF i = 0 THEN col ELSE [col EXCEPT ![i] = Merge(col[i], set)]

\* create_document(collection, doc): inserts doc; the new _id is its position.
CreateDocument(col, doc) == Append(col, doc)

\* collection.find_one({"client_id": c}) as a position, 0 for None.
FindAccount(col, c) ==
    FirstOf({i \in 1..Len(col) : col[i].client_id = c})

\* ---------------------------------------------------------------- workers
NoAccount == Account(NoneVal, NoneVal, NoneVal)

NoPayload ==
    [client_id |-> NoneVal, email |-> NoneVal, category |-> NoneVal,
     session_id |-> 0, answer |-> << >>, sub_id |-> NoneVal,
     cust_id |-> NoneVal, status |-> NoneVal]

Idle == [pc |-> "idle", payload |-> NoPayload, acct |-> NoAccount,
         plan |-> NoneVal, step |-> 0, answers |-> << >>, ideas |-> << >>]

NoResp == [op |-> NoneVal, status |-> 0, client_id |-> NoneVal,
           plan |-> NoneVal, session_id |-> 0, question |-> NoneVal,
           step |-> 0, total_steps |-> 0, done |-> FALSE,
           suggestions |-> << >>]

\* The fields of an account document that a handler goes on to read; a worker
\* keeps no others.
Reading(doc, fields) ==
    [k \in DOMAIN doc |-> IF k \in fields THEN doc[k] ELSE NoneVal]

Serving(w, pc, payload) ==
    [req EXCEPT ![w] = [Idle EXCEPT !.pc = pc, !.payload = payload]]

\* A step that sends no response.
Silent == resp' = NoResp

\* The request of worker w ends with response r.
Finish(w, r) ==
    /\ req' = [req EXCEPT ![w] = Idle]
    /\ resp' = r

\* Workers that are about to insert an account document.
AccountInserters ==
    {w \in Workers : req[w].pc \in
        {"init_create", "upgrade_create", "checkout_create", "start_create_account"}}

\* Room for one more account document, counting the inserts under way.
AccountRoom(c) ==
    \/ FindAccount(account, c) # 0
    \/ Len(account) + Cardinality(AccountInserters) < MaxAccounts

Init ==
    /\ account = << >>
    /\ session = << >>
    /\ message = << >>
    /\ idea = << >>
    /\ today = 0
    /\ req = [w \in Workers |-> Idle]
    /\ resp = NoResp

\* ---------------------------------------------------------------- init_account
\* Mutant of InitAccountSet: a given email replaces the stored one.
InitAccountSetAlways(existing, email) ==
    IF email # NoneVal
    THEN [email |-> email]
    ELSE NoFields

\* The "$set" of init_account on an existing account: the email is filled in
\* only when one is given and none is stored.
InitAccountSet(existing, email) ==
    IF email # NoneVal /\ existing.email = NoneVal
    THEN [email |-> email]
    ELSE NoFields

InitAccountFind(w, c, e) ==
    /\ req[w].pc = "idle"
    /\ AccountRoom(c)
    /\ LET i == FindAccount(account, c)
       IN  req' = [req EXCEPT ![w] =
                [Idle EXCEPT !.pc = IF i = 0 THEN "init_create" ELSE "init_update",
                             !.payload = [NoPayload EXCEPT !.client_id = c, !.email = e],
                             !.acct = IF i = 0 THEN NoAccount
                                      ELSE Reading(account[i], {"client_id", "plan", "email"})]]
    /\ Silent
    /\ UNCHANGED <<stores, today>>

InitAccountUpdate(w) ==
    /\ req[w].pc = "init_update"
    /\ account' = UpdateOne(account, FindAccount(account, req[w].payload.client_id),
                            InitAccountSet(req[w].acct, req[w].payload.email))
    /\ Finish(w, [NoResp EXCEPT !.op = "init_account", !.status = 200,
                                !.client_id = req[w].acct.client_id,
                                !.plan = req[w].acct.plan])
    /\ UNCHANGED <<session, message, idea, today>>

InitAccountCreate(w) ==
    /\ req[w].pc = "init_create"
    /\ account' = CreateDocument(account,
            Account(req[w].payload.client_id, "free", req[w].payload.email))
    /\ Finish(w, [NoResp EXCEPT !.op = "init_account", !.status = 200,
                                !.client_id = req[w].payload.client_id,
                                !.plan = "free"])
    /\ UNCHANGED <<session, message, idea, today>>

\* ---------------------------------------------------------------- upgrade_account
\* Mutant of UpgradeSet: the status is written, the plan is not.
UpgradeSetStatus == [subscription_status |-> "active"]

\* {"$set": {"plan": "pro", "updated_at": ...}}
UpgradeSet == [plan |-> "pro"]

\* Mutant of UpgradeAccountUpdate: the plan snapshots of the client's sessions
\* are upgraded with the account.
UpgradeAccountUpdateSyncing(w, c) ==
    /\ req[w].pc = "idle"
    /\ AccountRoom(c)
    /\ LET matched_count == IF FindAccount(account, c) = 0 THEN 0 ELSE 1
       IN  /\ account' = UpdateOne(account, FindAccount(account, c), UpgradeSet)
           /\ IF matched_count = 0
              THEN /\ req' = Serving(w, "upgrade_create",
                                     [NoPayload EXCEPT !.client_id = c])
                   /\ Silent
              ELSE Finish(w, [NoResp EXCEPT !.op = "upgrade_account", !.status = 200,
                                           !.client_id = c, !.plan = "pro"])
    /\ session' = [i \in 1..Len(session) |->
                        IF session[i].client_id = c
                        THEN [session[i] EXCEPT !.plan = "pro"]
                        ELSE session[i]]
    /\ UNCHANGED <<message, idea, today>>

UpgradeAccountUpdate(w, c) ==
    /\ req[w].pc = "idle"
    /\ AccountRoom(c)
    /\ LET matched_count == IF FindAccount(account, c) = 0 THEN 0 ELSE 1
       IN  /\ account' = UpdateOne(account, FindAccount(account, c), UpgradeSet)
           /\ IF matched_count = 0
              THEN /\ req' = Serving(w, "upgrade_create",
                                     [NoPayload EXCEPT !.client_id = c])
                   /\ Silent
              ELSE Finish(w, [NoResp EXCEPT !.op = "upgrade_account", !.status = 200,
                                           !.client_id = c, !.plan = "pro"])
    /\ UNCHANGED <<session, message, idea, today>>

UpgradeAccountCreate(w) ==
    /\ req[w].pc = "upgrade_create"
    /\ account' = CreateDocument(account,
            Account(req[w].payload.client_id, "pro", NoneVal))
    /\ Finish(w, [NoResp EXCEPT !.op = "upgrade_account", !.status = 200,
                                !.client_id = req[w].payload.client_id,
                                !.plan = "pro"])
    /\ UNCHANGED <<session, message, idea, today>>

\* ---------------------------------------------------------------- create_checkout_session
CheckoutFind(w, c, e) ==
    /\ req[w].pc = "idle"
    /\ AccountRoom(c)
    /\ LET i == FindAccount(account, c)
       IN  req' = [req EXCEPT ![w] =
                [Idle EXCEPT !.pc = IF i = 0 THEN "checkout_create" ELSE "checkout_customer",
                             !.payload = [NoPayload EXCEPT !.client_id = c, !.email = e],
                             !.acct = IF i = 0 THEN NoAccount
                                      ELSE Reading(account[i], {"stripe_customer_id", "email"})]]
    /\ Silent
    /\ UNCHANGED <<stores, today>>

CheckoutCreate(w) ==
    /\ req[w].pc = "checkout_create"
    /\ account' = CreateDocument(account,
            Account(req[w].payload.client_id, "free", req[w].payload.email))
    /\ req' = [req EXCEPT ![w].pc = "checkout_refind"]
    /\ Silent
    /\ UNCHANGED <<session, message, idea, today>>

CheckoutRefind(w) ==
    /\ req[w].pc = "checkout_refind"
    /\ req' = [req EXCEPT ![w].pc = "checkout_customer",
                          ![w].acct = Reading(account[FindAccount(account, req[w].payload.client_id)],
                                              {"stripe_customer_id", "email"})]
    /\ Silent
    /\ UNCHANGED <<stores, today>>

\* Customer ids the billing provider has not handed out yet.
FreshCustomerIds ==
    {k \in CustomerIds : \A i \in 1..Len(account) : account[i].stripe_customer_id # k}

\* "Ensure customer exists", then the price and the hosted checkout session.
\* A call to the billing provider either answers or raises (500).
CheckoutCustomer(w) ==
    /\ req[w].pc = "checkout_customer"
    /\ LET c == req[w].payload.client_id
           email == IF req[w].payload.email # NoneVal
                    THEN req[w].payload.email ELSE req[w].acct.email
       IN  IF req[w].acct.stripe_customer_id = NoneVal
           THEN \/ /\ UNCHANGED account
                   /\ Finish(w, [NoResp EXCEPT !.op = "create_checkout_session",
                                               !.status = 500])
                \/ \E k \in FreshCustomerIds, status \in {200, 500} :
                      /\ account' = UpdateOne(account, FindAccount(account, c),
                                [stripe_customer_id |-> k, email |-> email])
                      /\ Finish(w, [NoResp EXCEPT !.op = "create_checkout_session",
                                                      !.status = status])
           ELSE \E status \in {200, 500} :
                   /\ UNCHANGED account
                   /\ Finish(w, [NoResp EXCEPT !.op = "create_checkout_session",
                                               !.status = status])
    /\ UNCHANGED <<session, message, idea, today>>

\* ---------------------------------------------------------------- stripe_webhook
\* What an event may carry in a field: a value, or nothing (data.get -> None).
OrNone(S) == S \cup {NoneVal}

\* set_plan: update = {"plan": plan}; update.update(fields);
\* update_one({"client_id": client_id}, {"$set": update}, upsert=True).
SetPlan(col, client_id, plan, fields) ==
    LET i == FindAccount(col, client_id)
    IN  IF i = 0
        THEN Append(col, Merge(Account(client_id, plan, NoneVal), fields))
        ELSE UpdateOne(col, i, fields @@ [plan |-> plan])

\* Mutant of ResolveClientId: the metadata is not consulted.
ResolveClientIdReferenceOnly(client_reference_id, metadata_client_id) ==
    client_reference_id

\* data.get("client_reference_id") or (data.get("metadata") or {}).get("client_id")
ResolveClientId(client_reference_id, metadata_client_id) ==
    IF client_reference_id # NoneVal THEN client_reference_id ELSE metadata_client_id

\* Mutant of PlanForStatus: a trial does not count as pro.
PlanForStatusActiveOnly(status) ==
    IF status = "active" THEN "pro" ELSE "free"

\* "pro" if status in ("active", "trialing") else "free"
PlanForStatus(status) ==
    IF status \in {"active", "trialing"} THEN "pro" ELSE "free"

\* find_one({"$or": [{"stripe_subscription_id": sub_id}, {"stripe_customer_id": cust_id}]})
FindBySubscriptionOrCustomer(col, sub_id, cust_id) ==
    FirstOf({i \in 1..Len(col) : \/ col[i].stripe_subscription_id = sub_id
                                 \/ col[i].stripe_customer_id = cust_id})

\* Mutant of FindBySubscription: the filter is dropped.
FindBySubscriptionFirst(col, sub_id) ==
    FirstOf(1..Len(col))

\* find_one({"stripe_subscription_id": sub_id})
FindBySubscription(col, sub_id) ==
    FirstOf({i \in 1..Len(col) : col[i].stripe_subscription_id = sub_id})

\* {"received": True}; op names the event type that was handled.
Received(type) == [NoResp EXCEPT !.op = type, !.status = 200]

\* The signature does not verify: 400 before the event is read.
WebhookBadSignature(w) ==
    /\ req[w].pc = "idle"
    /\ Finish(w, [NoResp EXCEPT !.op = "stripe_webhook", !.status = 400])
    /\ UNCHANGED <<stores, today>>

\* An event type the handler has no branch for.
WebhookOtherEvent(w) ==
    /\ req[w].pc = "idle"
    /\ Finish(w, Received("other"))
    /\ UNCHANGED <<stores, today>>

\* checkout.session.completed
WebhookCheckoutCompleted(w, client_reference_id, metadata_client_id, sub_id, cust_id) ==
    /\ req[w].pc = "idle"
    /\ LET client_id == ResolveClientId(client_reference_id, metadata_client_id)
           status == "active"
       IN  IF client_id # NoneVal
           THEN /\ AccountRoom(client_id)
                /\ account' = SetPlan(account, client_id, "pro",
                        [stripe_subscription_id |-> sub_id,
                         stripe_customer_id |-> cust_id,
                         subscription_status |-> status])
           ELSE UNCHANGED account
    /\ Finish(w, Received("checkout.session.completed"))
    /\ UNCHANGED <<session, message, idea, today>>

\* customer.subscription.created and customer.subscription.updated (one branch
\* of the handler, labelled by the second): the lookup.
WebhookSubscriptionFind(w, sub_id, cust_id, status) ==
    /\ req[w].pc = "idle"
    /\ LET i == FindBySubscriptionOrCustomer(account, sub_id, cust_id)
           payload == [NoPayload EXCEPT !.sub_id = sub_id, !.cust_id = cust_id,
                                        !.status = status]
       IN  IF i = 0
           THEN Finish(w, Received("customer.subscription.updated"))
           ELSE /\ req' = [req EXCEPT ![w] =
                        [Idle EXCEPT !.pc = "subscription_set", !.payload = payload,
                                     !.acct = Reading(account[i], {"client_id"})]]
                /\ Silent
    /\ UNCHANGED <<stores, today>>

WebhookSubscriptionSet(w) ==
    /\ req[w].pc = "subscription_set"
    /\ LET p == req[w].payload
       IN  account' = SetPlan(account, req[w].acct.client_id, PlanForStatus(p.status),
                        [stripe_subscription_id |-> p.sub_id,
                         stripe_customer_id |-> p.cust_id,
                         subscription_status |-> p.status])
    /\ Finish(w, Received("customer.subscription.updated"))
    /\ UNCHANGED <<session, message, idea, today>>

\* customer.subscription.deleted: the lookup.
WebhookDeletedFind(w, sub_id, status) ==
    /\ req[w].pc = "idle"
    /\ LET i == FindBySubscription(account, sub_id)
           payload == [NoPayload EXCEPT !.sub_id = sub_id, !.status = status]
       IN  IF i = 0
           THEN Finish(w, Received("customer.subscription.deleted"))
           ELSE /\ req' = [req EXCEPT ![w] =
                        [Idle EXCEPT !.pc = "deleted_set", !.payload = payload,
                                     !.acct = Reading(account[i], {"client_id"})]]
                /\ Silent
    /\ UNCHANGED <<stores, today>>

WebhookDeletedSet(w) ==
    /\ req[w].pc = "deleted_set"
    /\ account' = SetPlan(account, req[w].acct.client_id, "free",
                        [subscription_status |-> req[w].payload.status])
    /\ Finish(w, Received("customer.subscription.deleted"))
    /\ UNCHANGED <<session, message, idea, today>>

\* ---------------------------------------------------------------- start_session
\* Mutant of TodayCount: the sessions of every day are counted.
TodayCountAnyDay(col, c, start_of_day) ==
    Cardinality({i \in 1..Len(col) : col[i].client_id = c})

\* count_documents({"client_id": c, "created_at": {"$gte": start_of_day}})
TodayCount(col, c, start_of_day) ==
    Cardinality({i \in 1..Len(col) :
        col[i].client_id = c /\ col[i].created_at >= start_of_day})

\* Workers between the start of start_session and its insert.
SessionInserters ==
    {w \in Workers : req[w].pc \in
        {"start_create_account", "start_refind", "start_quota", "start_create"}}

\* Mutant of AfterAccount: the quota is checked whatever the plan.
AfterAccountAlwaysQuota(plan) == "start_quota"

\* After the account is read: the quota check for free, the insert otherwise.
AfterAccount(plan) == IF plan = "free" THEN "start_quota" ELSE "start_create"

StartSessionFind(w, category, c) ==
    /\ req[w].pc = "idle"
    /\ AccountRoom(c)
    /\ Len(session) + Cardinality(SessionInserters) < MaxSessions
    /\ LET i == FindAccount(account, c)
           payload == [NoPayload EXCEPT !.client_id = c, !.category = category]
       IN  req' = [req EXCEPT ![w] =
                IF i = 0
                THEN [Idle EXCEPT !.pc = "start_create_account", !.payload = payload]
                ELSE [Idle EXCEPT !.pc = AfterAccount(account[i].plan),
                                  !.payload = payload, !.plan = account[i].plan]]
    /\ Silent
    /\ UNCHANGED <<stores, today>>

StartSessionCreateAccount(w) ==
    /\ req[w].pc = "start_create_account"
    /\ account' = CreateDocument(account,
            Account(req[w].payload.client_id, "free", NoneVal))
    /\ req' = [req EXCEPT ![w].pc = "start_refind"]
    /\ Silent
    /\ UNCHANGED <<session, message, idea, today>>

StartSessionRefind(w) ==
    /\ req[w].pc = "start_refind"
    /\ LET plan == account[FindAccount(account, req[w].payload.client_id)].plan
       IN  req' = [req EXCEPT ![w].pc = AfterAccount(plan), ![w].plan = plan]
    /\ Silent
    /\ UNCHANGED <<stores, today>>

\* 402 "Daily limit reached. Upgrade to Pro for unlimited brainstorming."
QuotaExceeded == [NoResp EXCEPT !.op = "start_session", !.status = 402]

\* "Enforce free plan limit: 1 session per day (UTC)"
StartSessionQuota(w) ==
    /\ req[w].pc = "start_quota"
    /\ IF TodayCount(session, req[w].payload.client_id, today) >= 1
       THEN Finish(w, QuotaExceeded)
       ELSE /\ req' = [req EXCEPT ![w].pc = "start_create"]
            /\ Silent
    /\ UNCHANGED <<stores, today>>

\* Mutant of StartResponse: the question after the first is returned.
StartResponseSecond(session_id, category, plan) ==
    LET questions == QUESTION_BANK[category]
    IN  [NoResp EXCEPT !.op = "start_session", !.status = 200,
                       !.session_id = session_id,
                       !.question = questions[2],
                       !.step = 0,
                       !.total_steps = Len(questions),
                       !.plan = plan]

\* What start_session returns.
StartResponse(session_id, category, plan) ==
    LET questions == QUESTION_BANK[category]
    IN  [NoResp EXCEPT !.op = "start_session", !.status = 200,
                       !.session_id = session_id,
                       !.question = questions[1],
                       !.step = 0,
                       !.total_steps = Len(questions),
                       !.plan = plan]

StartSessionCreate(w) ==
    /\ req[w].pc = "start_create"
    /\ LET p == req[w].payload
       IN  /\ session' = CreateDocument(session,
                    Session(p.category, p.client_id, req[w].plan, today))
           /\ Finish(w, StartResponse(Len(session'), p.category, req[w].plan))
    /\ UNCHANGED <<account, message, idea, today>>

\* ---------------------------------------------------------------- next_question
SessionIds == 1..(MaxSessions + 1)

\* The body of the "next question" answer for a session at step.
QuestionOrDone(op, category, step) ==
    LET questions == QUESTION_BANK[category]
    IN  IF step >= Len(questions)
        THEN [NoResp EXCEPT !.op = op, !.status = 200, !.done = TRUE]
        ELSE [NoResp EXCEPT !.op = op, !.status = 200,
                            !.question = questions[step + 1],
                            !.step = step,
                            !.total_steps = Len(questions)]

\* Mutant of NotFound: an unknown session is answered as a finished one.
NotFoundAsDone(op) == [NoResp EXCEPT !.op = op, !.status = 200, !.done = TRUE]

\* HTTPException(status_code=404, detail="Session not found")
NotFound(op) == [NoResp EXCEPT !.op = op, !.status = 404]

NextQuestion(w, session_id) ==
    /\ req[w].pc = "idle"
    /\ IF session_id > Len(session)
       THEN Finish(w, NotFound("next_question"))
       ELSE Finish(w, QuestionOrDone("next_question", session[session_id].category,
                                     session[session_id].step))
    /\ UNCHANGED <<stores, today>>

\* ---------------------------------------------------------------- submit_answer
\* Mutant of RecordedQuestion: past the end, the last question is recorded.
RecordedQuestionLast(category, step) ==
    LET questions == QUESTION_BANK[category]
    IN  IF step < Len(questions) THEN questions[step + 1] ELSE questions[Len(questions)]

\* question=questions[step] if step < len(questions) else ""
RecordedQuestion(category, step) ==
    LET questions == QUESTION_BANK[category]
    IN  IF step < Len(questions) THEN questions[step + 1] ELSE ""

\* Mutants of IncrementedStep: the step is written back as read; the step
\* moves by two.
StepNotIncremented(step) == step

StepSkips(step) == step + 2

\* {"$set": {"step": step + 1}}
IncrementedStep(step) == step + 1

\* Workers that have loaded a session and not yet stored their message.
MessageInserters == {w \in Workers : req[w].pc = "submit_store"}

SubmitLoad(w, session_id, answer) ==
    /\ req[w].pc = "idle"
    /\ IF session_id > Len(session)
       THEN Finish(w, NotFound("submit_answer"))
       ELSE /\ Len(message) + Cardinality(MessageInserters) < MaxMessages
            /\ req' = [req EXCEPT ![w] =
                    [Idle EXCEPT !.pc = "submit_store",
                                 !.payload = [NoPayload EXCEPT
                                     !.session_id = session_id,
                                     !.answer = answer,
                                     !.category = session[session_id].category],
                                 !.step = session[session_id].step]]
            /\ Silent
    /\ UNCHANGED <<stores, today>>

\* Mutant of SubmitStore: the message is not stored.
SubmitStoreNothing(w) ==
    /\ req[w].pc = "submit_store"
    /\ req' = [req EXCEPT ![w].pc = "submit_increment"]
    /\ Silent
    /\ UNCHANGED <<stores, today>>

SubmitStore(w) ==
    /\ req[w].pc = "submit_store"
    /\ LET p == req[w].payload
       IN  message' = CreateDocument(message,
                Message(p.session_id, req[w].step,
                        RecordedQuestion(p.category, req[w].step), p.answer))
    /\ req' = [req EXCEPT ![w].pc = "submit_increment"]
    /\ Silent
    /\ UNCHANGED <<account, session, idea, today>>

SubmitIncrement(w) ==
    /\ req[w].pc = "submit_increment"
    /\ LET p == req[w].payload
       IN  /\ session' = [session EXCEPT ![p.session_id].step = IncrementedStep(req[w].step)]
           /\ Finish(w, QuestionOrDone("submit_answer", p.category, req[w].step + 1))
    /\ UNCHANGED <<account, message, idea, today>>

\* ---------------------------------------------------------------- get_suggestions
UpperCase == <<"A", "B", "C", "D", "E", "F", "G", "H", "I", "J", "K", "L", "M", "N", "O", "P", "Q", "R", "S", "T", "U", "V", "W", "X", "Y", "Z">>

LowerCase == <<"a", "b", "c", "d", "e", "f", "g", "h", "i", "j", "k", "l", "m", "n", "o", "p", "q", "r", "s", "t", "u", "v", "w", "x", "y", "z">>

\* str.lower(), a character at a time.
LowerChar(ch) ==
    IF \E i \in 1..Len(UpperCase) : UpperCase[i] = ch
    THEN LowerCase[CHOOSE i \in 1..Len(UpperCase) : UpperCase[i] = ch]
    ELSE ch

Lower(text) == [i \in 1..Len(text) |-> LowerChar(text[i])]

\* " ".join(texts)
RECURSIVE Join(_)
Join(texts) ==
    IF texts = << >> THEN << >>
    ELSE IF Len(texts) = 1 THEN texts[1]
    ELSE texts[1] \o <<" ">> \o Join(Tail(texts))

\* Mutant of Contains: the text starts with k.
StartsWith(text, k) ==
    Len(k) <= Len(text) /\ SubSeq(text, 1, Len(k)) = k

\* k in text
Contains(text, k) ==
    \E i \in 0..(Len(text) - Len(k)) : SubSeq(text, i + 1, i + Len(k)) = k

\* get_documents(message, {"session_id": session_id}), then
\* " ".join([(m.get("answer") or "") for m in messages]).lower()
SessionAnswers(col, session_id) ==
    LET Mine(m) == m.session_id = session_id
        messages == SelectSeq(col, Mine)
    IN  Lower(Join([i \in 1..Len(messages) |-> messages[i].answer]))

\* The templates of each category in the order the handler tries them, each
\* with the keywords any of which makes it fire; "always" for the add_idea
\* calls under no condition.
RULES ==
    [c \in Category |->
        CASE c = "business" ->
               << \* ai / machine learning / chatbot / agent
                  [title |-> "Niche AI Copilot", always |-> FALSE,
                   keywords |-> <<<<"a", "i">>,
                                  <<"m", "a", "c", "h", "i", "n", "e", " ", "l", "e", "a", "r", "n", "i", "n", "g">>,
                                  <<"c", "h", "a", "t", "b", "o", "t">>,
                                  <<"a", "g", "e", "n", "t">>>>],
                  \* marketplace / platform / connect
                  [title |-> "Curated Micro-Marketplace", always |-> FALSE,
                   keywords |-> <<<<"m", "a", "r", "k", "e", "t", "p", "l", "a", "c", "e">>,
                                  <<"p", "l", "a", "t", "f", "o", "r", "m">>,
                                  <<"c", "o", "n", "n", "e", "c", "t">>>>],
                  [title |-> "Service-to-Product Transition", always |-> TRUE,
                   keywords |-> << >>] >>
          [] c = "content" ->
               << \* video / youtube / tiktok / shorts
                  [title |-> "30-Day Video Sprint", always |-> FALSE,
                   keywords |-> <<<<"v", "i", "d", "e", "o">>,
                                  <<"y", "o", "u", "t", "u", "b", "e">>,
                                  <<"t", "i", "k", "t", "o", "k">>,
                                  <<"s", "h", "o", "r", "t", "s">>>>],
                  \* newsletter / writing / blog
                  [title |-> "Opinionated Weekly Newsletter", always |-> FALSE,
                   keywords |-> <<<<"n", "e", "w", "s", "l", "e", "t", "t", "e", "r">>,
                                  <<"w", "r", "i", "t", "i", "n", "g">>,
                                  <<"b", "l", "o", "g">>>>],
                  [title |-> "Theme + Pillars System", always |-> TRUE,
                   keywords |-> << >>] >>
          [] OTHER ->
               << [title |-> "Obstacle Breakdown", always |-> TRUE,
                   keywords |-> << >>],
                  \* time / schedule / focus
                  [title |-> "Time-Boxed Progress", always |-> FALSE,
                   keywords |-> <<<<"t", "i", "m", "e">>,
                                  <<"s", "c", "h", "e", "d", "u", "l", "e">>,
                                  <<"f", "o", "c", "u", "s">>>>] >>]

\* any(k in answers for k in keywords)
Fires(rule, answers) ==
    \/ rule.always
    \/ \E i \in 1..Len(rule.keywords) : Contains(answers, rule.keywords[i])

\* Mutant of Firing: the handler returns after the first template that fires.
FiringFirst(category, answers) ==
    LET Test(rule) == Fires(rule, answers)
    IN  <<SelectSeq(RULES[category], Test)[1]>>

\* The templates add_idea is called with, in call order.
Firing(category, answers) ==
    LET Test(rule) == Fires(rule, answers)
    IN  SelectSeq(RULES[category], Test)

\* Ideas the suggestions calls under way have yet to insert.
IdeasToCome ==
    LET left(w) == IF req[w].pc = "suggest_add"
                   THEN Len(Firing(req[w].payload.category, req[w].answers))
                            - Len(req[w].ideas)
                   ELSE 0
    IN  left("w1") + left("w2")

SuggestLoadSession(w, session_id) ==
    /\ req[w].pc = "idle"
    /\ IF session_id > Len(session)
       THEN Finish(w, NotFound("get_suggestions"))
       ELSE /\ req' = Serving(w, "suggest_messages",
                        [NoPayload EXCEPT !.session_id = session_id,
                                          !.category = session[session_id].category])
            /\ Silent
    /\ UNCHANGED <<stores, today>>

SuggestLoadMessages(w) ==
    /\ req[w].pc = "suggest_messages"
    /\ LET answers == SessionAnswers(message, req[w].payload.session_id)
       IN  /\ Len(idea) + IdeasToCome
                + Len(Firing(req[w].payload.category, answers)) <= MaxIdeas
           /\ req' = [req EXCEPT ![w].pc = "suggest_add", ![w].answers = answers]
    /\ Silent
    /\ UNCHANGED <<stores, today>>

\* Mutant of Suggestions: only the idea added last is returned.
SuggestionsLatest(ideas) ==
    [NoResp EXCEPT !.op = "get_suggestions", !.status = 200,
                   !.suggestions = <<ideas[Len(ideas)]>>]

\* {"suggestions": ideas}
Suggestions(ideas) ==
    [NoResp EXCEPT !.op = "get_suggestions", !.status = 200,
                   !.suggestions = ideas]

\* One add_idea call, and what follows it up to the next one or the return.
SuggestAddIdea(w) ==
    /\ req[w].pc = "suggest_add"
    /\ LET p == req[w].payload
           firing == Firing(p.category, req[w].answers)
           title == firing[Len(req[w].ideas) + 1].title
           ideas == Append(req[w].ideas, [id |-> Len(idea) + 1, title |-> title])
       IN  /\ idea' = CreateDocument(idea, Idea(p.session_id, title, p.category))
           /\ IF Len(ideas) = Len(firing)
              THEN Finish(w, Suggestions(ideas))
              ELSE /\ req' = [req EXCEPT ![w].ideas = ideas]
                   /\ Silent
    /\ UNCHANGED <<account, session, message, today>>

\* ---------------------------------------------------------------- time
\* The UTC day changes.
Tick ==
    /\ today < MaxDay
    /\ today' = today + 1
    /\ Silent
    /\ UNCHANGED <<stores, req>>

\* ---------------------------------------------------------------- specification
Next ==
    \/ Tick
    \/ \E w \in Workers :
        \/ \E c \in Clients, e \in OrNone(Emails) : InitAccountFind(w, c, e)
        \/ InitAccountUpdate(w)
        \/ InitAccountCreate(w)
        \/ \E c \in Clients : UpgradeAccountUpdate(w, c)
        \/ UpgradeAccountCreate(w)
        \/ \E c \in Clients, e \in OrNone(Emails) : CheckoutFind(w, c, e)
        \/ CheckoutCreate(w)
        \/ CheckoutRefind(w)
        \/ CheckoutCustomer(w)
        \/ WebhookBadSignature(w)
        \/ WebhookOtherEvent(w)
        \/ \E r \in OrNone(Clients), m \in OrNone(Clients),
              s \in OrNone(SubscriptionIds), k \in OrNone(CustomerIds) :
                WebhookCheckoutCompleted(w, r, m, s, k)
        \/ \E s \in OrNone(SubscriptionIds), k \in OrNone(CustomerIds),
              st \in Statuses : WebhookSubscriptionFind(w, s, k, st)
        \/ WebhookSubscriptionSet(w)
        \/ \E s \in OrNone(SubscriptionIds), st \in Statuses :
                WebhookDeletedFind(w, s, st)
        \/ WebhookDeletedSet(w)
        \/ \E cat \in Category, c \in Clients : StartSessionFind(w, cat, c)
        \/ StartSessionCreateAccount(w)
        \/ StartSessionRefind(w)
        \/ StartSessionQuota(w)
        \/ StartSessionCreate(w)
        \/ \E sid \in SessionIds : NextQuestion(w, sid)
        \/ \E sid \in SessionIds, a \in Answers : SubmitLoad(w, sid, a)
        \/ SubmitStore(w)
        \/ SubmitIncrement(w)
        \/ \E sid \in SessionIds : SuggestLoadSession(w, sid)
        \/ SuggestLoadMessages(w)
        \/ SuggestAddIdea(w)

Spec == Init /\ [][Next]_vars

\* ---------------------------------------------------------------- restrictions
\* Spec is the whole system.  Each specification below keeps some of its
\* requests and some of their inputs, so each of its behaviours is a behaviour
\* of Spec.

\* One request at a time: the session stepper, the quota and the day change.
SerialNext ==
    \/ Tick
    \/ \E w \in {"w1"} :
        \/ \E cat \in Category : StartSessionFind(w, cat, "client-a")
        \/ StartSessionCreateAccount(w)
        \/ StartSessionRefind(w)
        \/ StartSessionQuota(w)
        \/ StartSessionCreate(w)
        \/ \E sid \in SessionIds : NextQuestion(w, sid)
        \/ \E sid \in SessionIds : SubmitLoad(w, sid, AnAnswer)
        \/ SubmitStore(w)
        \/ SubmitIncrement(w)

SerialSpec == Init /\ [][SerialNext]_vars

\* Overlapping submit calls on the sessions of one client.
StepperNext ==
    \/ \E w \in {"w1"} :
        \/ \E cat \in Category : StartSessionFind(w, cat, "client-a")
        \/ StartSessionCreateAccount(w)
        \/ StartSessionRefind(w)
        \/ StartSessionQuota(w)
        \/ StartSessionCreate(w)
    \/ \E w \in Workers :
        \/ \E sid \in SessionIds : SubmitLoad(w, sid, AnAnswer)
        \/ SubmitStore(w)
        \/ SubmitIncrement(w)

StepperSpec == Init /\ [][StepperNext]_vars

\* Overlapping start_session and manual upgrade requests, and the day change.
QuotaNext ==
    \/ Tick
    \/ \E w \in Workers :
        \/ \E c \in Clients : UpgradeAccountUpdate(w, c)
        \/ UpgradeAccountCreate(w)
        \/ \E c \in Clients : StartSessionFind(w, "general", c)
        \/ StartSessionCreateAccount(w)
        \/ StartSessionRefind(w)
        \/ StartSessionQuota(w)
        \/ StartSessionCreate(w)

QuotaSpec == Init /\ [][QuotaNext]_vars

\* Every request that creates an account, overlapping, for one client.
AccountNext ==
    \E w \in Workers :
        \/ \E e \in {NoneVal, "a@x.io"} : InitAccountFind(w, "client-a", e)
        \/ InitAccountUpdate(w)
        \/ InitAccountCreate(w)
        \/ UpgradeAccountUpdate(w, "client-a")
        \/ UpgradeAccountCreate(w)
        \/ \E e \in {NoneVal, "a@x.io"} : CheckoutFind(w, "client-a", e)
        \/ CheckoutCreate(w)
        \/ CheckoutRefind(w)
        \/ CheckoutCustomer(w)
        \/ \E s \in SubscriptionIds, k \in CustomerIds :
                WebhookCheckoutCompleted(w, "client-a", NoneVal, s, k)
        \/ StartSessionFind(w, "general", "client-a")
        \/ StartSessionCreateAccount(w)
        \/ StartSessionRefind(w)
        \/ StartSessionQuota(w)
        \/ StartSessionCreate(w)

AccountSpec == Init /\ [][AccountNext]_vars

\* Overlapping account inits, beside manual upgrades and completed checkouts.
InitAccountNext ==
    \/ \E w \in Workers :
        \/ \E c \in Clients, e \in OrNone(Emails) : InitAccountFind(w, c, e)
        \/ InitAccountUpdate(w)
        \/ InitAccountCreate(w)
    \/ \E c \in Clients : UpgradeAccountUpdate("w2", c)
    \/ UpgradeAccountCreate("w2")
    \/ \E c \in Clients :
          WebhookCheckoutCompleted("w2", c, NoneVal, "sub_1", "cus_1")

InitAccountSpec == Init /\ [][InitAccountNext]_vars

\* Sessions of one client answered a little, and overlapping suggestions calls.
SuggestNext ==
    \/ \E w \in {"w1"} :
        \/ \E cat \in Category : StartSessionFind(w, cat, "client-a")
        \/ StartSessionCreateAccount(w)
        \/ StartSessionRefind(w)
        \/ StartSessionQuota(w)
        \/ StartSessionCreate(w)
        \/ \E sid \in SessionIds, a \in Answers :
              Len(message) < MaxAnswered /\ SubmitLoad(w, sid, a)
        \/ SubmitStore(w)
        \/ SubmitIncrement(w)
    \/ \E w \in Workers :
        \/ \E sid \in SessionIds : SuggestLoadSession(w, sid)
        \/ SuggestLoadMessages(w)
        \/ SuggestAddIdea(w)

SuggestSpec == Init /\ [][SuggestNext]_vars

\* The three requests that look a session up, overlapping, on a general
\* session.
LookupNext ==
    \/ \E w \in {"w1"} :
        \/ StartSessionFind(w, "general", "client-a")
        \/ StartSessionCreateAccount(w)
        \/ StartSessionRefind(w)
        \/ StartSessionQuota(w)
        \/ StartSessionCreate(w)
    \/ \E w \in Workers :
        \/ \E sid \in SessionIds : NextQuestion(w, sid)
        \/ \E sid \in SessionIds :
              Len(message) < MaxAnswered /\ SubmitLoad(w, sid, AnAnswer)
        \/ SubmitStore(w)
        \/ SubmitIncrement(w)
        \/ \E sid \in SessionIds : SuggestLoadSession(w, sid)
        \/ SuggestLoadMessages(w)
        \/ SuggestAddIdea(w)

LookupSpec == Init /\ [][LookupNext]_vars

\* The session requests of one client on one worker, the account and billing
\* requests for that client on the other.
FrameNext ==
    \/ \E w \in {"w1"} :
        \/ StartSessionFind(w, "general", "client-a")
        \/ StartSessionCreateAccount(w)
        \/ StartSessionRefind(w)
        \/ StartSessionQuota(w)
        \/ StartSessionCreate(w)
        \/ \E sid \in {1} :
              Len(message) < MaxAnswered /\ SubmitLoad(w, sid, AnAnswer)
        \/ SubmitStore(w)
        \/ SubmitIncrement(w)
        \/ \E sid \in {1} : SuggestLoadSession(w, sid)
        \/ SuggestLoadMessages(w)
        \/ SuggestAddIdea(w)
    \/ \E w \in {"w2"} :
        \/ InitAccountFind(w, "client-a", NoneVal)
        \/ InitAccountUpdate(w)
        \/ InitAccountCreate(w)
        \/ UpgradeAccountUpdate(w, "client-a")
        \/ UpgradeAccountCreate(w)
        \/ WebhookBadSignature(w)
        \/ WebhookOtherEvent(w)
        \/ WebhookCheckoutCompleted(w, "client-a", NoneVal, "sub_1", "cus_1")
        \/ \E st \in {"active", "canceled"} :
              WebhookSubscriptionFind(w, "sub_1", "cus_1", st)
        \/ WebhookSubscriptionSet(w)
        \/ WebhookDeletedFind(w, "sub_1", "canceled")
        \/ WebhookDeletedSet(w)

FrameSpec == Init /\ [][FrameNext]_vars

\* Completed checkouts handled one at a time, overlapping a manual upgrade.
CheckoutNext ==
    \/ \E c \in Clients : UpgradeAccountUpdate("w2", c)
    \/ UpgradeAccountCreate("w2")
    \/ \E r \in OrNone(Clients), m \in OrNone(Clients),
          s \in OrNone(SubscriptionIds), k \in OrNone(CustomerIds) :
            WebhookCheckoutCompleted("w1", r, m, s, k)

CheckoutSpec == Init /\ [][CheckoutNext]_vars

\* Billing events handled one at a time, overlapping manual upgrades.
BillingNext ==
    \/ \E w \in Workers :
        \/ \E c \in Clients : UpgradeAccountUpdate(w, c)
        \/ UpgradeAccountCreate(w)
    \/ \E w \in {"w1"} :
        \/ WebhookBadSignature(w)
        \/ WebhookOtherEvent(w)
        \/ \E r \in OrNone(Clients), m \in OrNone(Clients),
              s \in OrNone(SubscriptionIds), k \in OrNone(CustomerIds) :
                WebhookCheckoutCompleted(w, r, m, s, k)
        \/ \E s \in OrNone(SubscriptionIds), k \in OrNone(CustomerIds),
              st \in Statuses : WebhookSubscriptionFind(w, s, k, st)
        \/ WebhookSubscriptionSet(w)
        \/ \E s \in OrNone(SubscriptionIds), st \in Statuses :
                WebhookDeletedFind(w, s, st)
        \/ WebhookDeletedSet(w)

BillingSpec == Init /\ [][BillingNext]_vars

\* ================================================================ properties
\* The messages of a session, in the order they were stored.
MessagesOf(sid) ==
    LET Test(m) == m.session_id = sid
    IN  SelectSeq(message, Test)

\* A submit call on the session has loaded it and not yet returned.
SubmitInFlight(sid) ==
    \E w \in Workers :
        /\ req[w].pc \in {"submit_store", "submit_increment"}
        /\ req[w].payload.session_id = sid

BankLen(sid) == Len(QUESTION_BANK[session[sid].category])

\* Messages of the session recorded with an empty question.
EmptyQuestions(sid) ==
    Cardinality({i \in 1..Len(message) :
        message[i].session_id = sid /\ message[i].question = ""})

\* C1 (SerialSpec: submit calls do not overlap).  Between submit calls, a
\* session that has accepted k answers, k no more than its bank's length, has
\* step k and exactly k messages, in submission order: the i-th (from 0)
\* carries step i and the i-th question of the bank.
C1_AnswersLogged ==
    \A sid \in 1..Len(session) :
        LET msgs == MessagesOf(sid)
            k == Len(msgs)
        IN  (~SubmitInFlight(sid) /\ k <= BankLen(sid)) =>
                /\ session[sid].step = k
                /\ \A i \in 1..k :
                      /\ msgs[i].step = i - 1
                      /\ msgs[i].question = QUESTION_BANK[session[sid].category][i]

\* C1 witness: a session answered to the end of its bank, while another
\* session has a message in the same collection.
C1_BankAnswered ==
    \E sid \in 1..Len(session) :
        /\ ~SubmitInFlight(sid)
        /\ Len(MessagesOf(sid)) = BankLen(sid)
        /\ session[sid].step = BankLen(sid)
        /\ Len(message) > Len(MessagesOf(sid))

\* C2 as stated: every session has 0 <= step <= the length of its bank.
C2_StepWithinBank ==
    \A sid \in 1..Len(session) :
        session[sid].step >= 0 /\ session[sid].step <= BankLen(sid)

\* C2 as amended: every session has 0 <= step, and step exceeds the length
\* of its bank by no more than the number of its messages recorded with an
\* empty question (one per submit accepted at or past the end of the bank).
C2_StepWithinBankPlusOverrun ==
    \A sid \in 1..Len(session) :
        /\ session[sid].step >= 0
        /\ session[sid].step <= BankLen(sid) + EmptyQuestions(sid)

\* C2 witness: a session one step past its bank, after one empty-question
\* message.
C2_StepPastBank ==
    \E sid \in 1..Len(session) :
        /\ session[sid].step = BankLen(sid) + 1
        /\ EmptyQuestions(sid) = 1

\* C5.  A submit call that loads a session whose step is at or past the end
\* of its bank is not refused, records a message with the empty question at
\* the step it loaded, answers 200 "done", and leaves the step no smaller than
\* the step it loaded.
C5_SubmitPastEnd ==
    [][\A w \in Workers :
        /\ \A sid \in 1..Len(session), a \in {AnAnswer} :
              (session[sid].step >= BankLen(sid) /\ SubmitLoad(w, sid, a)) =>
                  (req'[w].pc = "submit_store" /\ req'[w].step = session[sid].step)
        /\ (/\ req[w].pc = "submit_store"
            /\ req'[w].pc = "submit_increment"
            /\ req[w].step >= BankLen(req[w].payload.session_id)) =>
                /\ Len(message') = Len(message) + 1
                /\ message'[Len(message')].session_id = req[w].payload.session_id
                /\ message'[Len(message')].step = req[w].step
                /\ message'[Len(message')].question = ""
        /\ (/\ req[w].pc = "submit_increment"
            /\ req'[w].pc = "idle"
            /\ req[w].step >= BankLen(req[w].payload.session_id)) =>
                /\ resp'.op = "submit_answer"
                /\ resp'.status = 200
                /\ resp'.done
                /\ session'[req[w].payload.session_id].step >= req[w].step
      ]_vars

\* C5 witness: "done" was just answered to a submit on a session that is now
\* past its bank and has a message with the empty question.
C5_AnsweredPastEnd ==
    /\ resp.op = "submit_answer"
    /\ resp.done
    /\ \E sid \in 1..Len(session) :
          /\ session[sid].step > BankLen(sid)
          /\ \E i \in 1..Len(message) :
                /\ message[i].session_id = sid
                /\ message[i].question = ""
                /\ message[i].step = BankLen(sid)

\* C6.  A step creates a session exactly when it answers start_session with
\* 200; the new session has the requested category and step 0, and the
\* answer carries step 0, the first question of that category's bank and
\* the bank's length as total_steps.
C6_StartReturnsFirstQuestion ==
    [][/\ (Len(session') # Len(session)) <=>
              (resp'.op = "start_session" /\ resp'.status = 200)
       /\ (Len(session') # Len(session)) =>
            LET sid == Len(session')
                new == session'[sid]
            IN  /\ sid = Len(session) + 1
                /\ \E w \in Workers :
                      /\ req[w].pc = "start_create"
                      /\ req'[w].pc = "idle"
                      /\ new.category = req[w].payload.category
                /\ new.step = 0
                /\ resp'.session_id = sid
                /\ resp'.step = 0
                /\ resp'.question = QUESTION_BANK[new.category][1]
                /\ resp'.total_steps = Len(QUESTION_BANK[new.category])
      ]_vars

\* C6 witness: a session was just started, the second, in another category
\* than the first.
C6_TwoCategoriesStarted ==
    /\ resp.op = "start_session"
    /\ resp.status = 200
    /\ Len(session) = 2
    /\ session[1].category # session[2].category
    /\ resp.question = QUESTION_BANK[session[2].category][1]

\* The client has a session created on or after the start of the current day.
StartedToday(c) ==
    \E i \in 1..Len(session) :
        session[i].client_id = c /\ session[i].created_at >= today

\* C3.  start_session reads the plan of the client's account; when it reads
\* free it checks the quota.  The check refuses with 402 and no session is
\* created when the client has a session created on or after the start of
\* the current UTC day; otherwise (the client's sessions are all of earlier
\* days) the request goes on and creates a session of the current day.
C3_FreeQuota ==
    [][\A w \in Workers :
        /\ (req[w].pc \in {"idle", "start_refind"} /\
            req'[w].pc \in {"start_quota", "start_create"}) =>
               LET plan == account[FindAccount(account, req'[w].payload.client_id)].plan
               IN  plan = "free" => (req'[w].pc = "start_quota" /\ req'[w].plan = "free")
        /\ (req[w].pc = "start_quota" /\ req'[w].pc # "start_quota") =>
               IF StartedToday(req[w].payload.client_id)
               THEN /\ resp'.op = "start_session"
                    /\ resp'.status = 402
                    /\ req'[w].pc = "idle"
                    /\ session' = session
               ELSE /\ req'[w].pc = "start_create"
                    /\ resp'.status # 402
        /\ (req[w].pc = "start_create" /\ req'[w].pc # "start_create") =>
               /\ resp'.op = "start_session"
               /\ resp'.status = 200
               /\ Len(session') = Len(session) + 1
               /\ session'[Len(session')].client_id = req[w].payload.client_id
               /\ session'[Len(session')].created_at = today
      ]_vars

\* C3 witness: on the second day a start_session was just refused, the
\* client having a free session created that day.
C3_RefusedToday ==
    /\ resp.op = "start_session"
    /\ resp.status = 402
    /\ today = 1
    /\ \E i \in 1..Len(session) :
          session[i].plan = "free" /\ session[i].created_at = today

\* C4.  A start_session that reads the plan pro skips the quota check and
\* answers 200; a 402 is only ever the answer of a quota check made for a
\* plan read as free.
C4_ProUnlimited ==
    [][/\ \A w \in Workers :
            /\ (req[w].pc \in {"idle", "start_refind"} /\
                req'[w].pc \in {"start_quota", "start_create"}) =>
                   LET plan == account[FindAccount(account, req'[w].payload.client_id)].plan
                   IN  /\ req'[w].plan = plan
                       /\ plan = "pro" => req'[w].pc = "start_create"
            /\ (req[w].pc = "start_create" /\ req[w].plan = "pro" /\
                req'[w].pc # "start_create") =>
                   (resp'.status = 200 /\ session'[Len(session')].plan = "pro")
       /\ resp'.status = 402 =>
            \E w \in Workers :
                /\ req[w].pc = "start_quota"
                /\ req[w].plan = "free"
                /\ req'[w].pc = "idle"
      ]_vars

\* C4 witness: a client has two pro sessions created on the same day, the
\* second just started.
C4_TwoProSessionsSameDay ==
    /\ resp.op = "start_session"
    /\ resp.status = 200
    /\ \E i, j \in 1..Len(session) :
          /\ i < j
          /\ session[i].client_id = session[j].client_id
          /\ session[i].created_at = session[j].created_at
          /\ session[i].plan = "pro"
          /\ session[j].plan = "pro"

\* C7 as stated: at most one account document per client_id.
C7_OneAccountPerClient ==
    \A i, j \in 1..Len(account) :
        account[i].client_id = account[j].client_id => i = j

\* The other half of C7: no step changes the client_id of a stored account.
C7_ClientIdNeverChanges ==
    [][\A i \in 1..Len(account) :
          /\ Len(account') >= Len(account)
          /\ account'[i].client_id = account[i].client_id]_vars

\* C8.  A checkout.session.completed event whose client id resolves (the
\* client_reference_id, else the metadata's client_id) leaves an account of
\* that client with plan pro, the event's subscription and customer ids and
\* status "active"; the account is inserted when the client had none, and
\* no document is inserted otherwise.  The answer is 200.
C8_CheckoutCompletedUpserts ==
    [][\A w \in Workers :
        (req[w].pc = "idle" /\ resp'.op = "checkout.session.completed") =>
        \A r \in OrNone(Clients), m \in OrNone(Clients),
           s \in OrNone(SubscriptionIds), k \in OrNone(CustomerIds) :
        ((r # NoneVal \/ m # NoneVal) /\ WebhookCheckoutCompleted(w, r, m, s, k)) =>
            LET c == IF r # NoneVal THEN r ELSE m
                had == \E i \in 1..Len(account) : account[i].client_id = c
                i == FindAccount(account', c)
            IN  /\ i # 0
                /\ account'[i].plan = "pro"
                /\ account'[i].stripe_subscription_id = s
                /\ account'[i].stripe_customer_id = k
                /\ account'[i].subscription_status = "active"
                /\ Len(account') = Len(account) + (IF had THEN 0 ELSE 1)
                /\ resp'.status = 200
      ]_vars

\* C8 witness: a checkout.session.completed event was just handled and the
\* ledger holds one account, pro and active, with the event's ids.
C8_AccountUpserted ==
    /\ resp.op = "checkout.session.completed"
    /\ Len(account) = 1
    /\ account[1].plan = "pro"
    /\ account[1].stripe_subscription_id = "sub_1"
    /\ account[1].stripe_customer_id = "cus_1"
    /\ account[1].subscription_status = "active"

\* The accounts the lookup of a subscription created/updated event matches:
\* the stored subscription id equals the event's id, or the stored customer
\* id equals the event's customer.
MatchesSubscriptionOrCustomer(s, k) ==
    {i \in 1..Len(account) : \/ account[i].stripe_subscription_id = s
                             \/ account[i].stripe_customer_id = k}

\* C9.  A subscription created/updated event resolves to the first account,
\* in store order, that matches by stored subscription id or stored customer
\* id; the account of that client then gets plan pro exactly when the event's
\* status is active or trialing, free otherwise, and the event's status.
C9_SubscriptionStatusSetsPlan ==
    [][\A w \in Workers :
        /\ (req[w].pc = "idle" /\ (\/ req'[w].pc = "subscription_set"
                                    \/ resp'.op = "customer.subscription.updated")) =>
            \A s \in OrNone(SubscriptionIds), k \in OrNone(CustomerIds), st \in Statuses :
              (MatchesSubscriptionOrCustomer(s, k) # {} /\
               WebhookSubscriptionFind(w, s, k, st)) =>
                  LET i == CHOOSE i \in MatchesSubscriptionOrCustomer(s, k) :
                              \A j \in MatchesSubscriptionOrCustomer(s, k) : i <= j
                  IN  /\ req'[w].pc = "subscription_set"
                      /\ req'[w].acct.client_id = account[i].client_id
                      /\ req'[w].payload.status = st
        /\ (req[w].pc = "subscription_set" /\ req'[w].pc # "subscription_set") =>
              LET st == req[w].payload.status
                  i == FindAccount(account', req[w].acct.client_id)
              IN  /\ i # 0
                  /\ account'[i].plan = (IF st = "active" \/ st = "trialing"
                                         THEN "pro" ELSE "free")
                  /\ account'[i].subscription_status = st
      ]_vars

\* C9 witness: a subscription event was just handled and an account is pro
\* with status trialing; another is free with status canceled.
C9_TrialingProCanceledFree ==
    /\ resp.op = "customer.subscription.updated"
    /\ \E i, j \in 1..Len(account) :
          /\ account[i].subscription_status = "trialing"
          /\ account[i].plan = "pro"
          /\ account[j].subscription_status = "canceled"
          /\ account[j].plan = "free"

\* C10.  A subscription deleted event resolves to the first account whose
\* stored subscription id equals the event's id, and the account of that
\* client then gets plan free and the event's status, no other document
\* changing.  When no account has that subscription id, no account changes
\* and the handler answers 200 at once.  Either way the answer is 200.
C10_DeletedSetsFree ==
    [][\A w \in Workers :
        /\ (req[w].pc = "idle" /\ (\/ req'[w].pc = "deleted_set"
                                    \/ resp'.op = "customer.subscription.deleted")) =>
            \A s \in OrNone(SubscriptionIds), st \in Statuses :
              WebhookDeletedFind(w, s, st) =>
                  LET matching == {i \in 1..Len(account) :
                                      account[i].stripe_subscription_id = s}
                  IN  /\ account' = account
                      /\ IF matching = {}
                         THEN /\ req'[w].pc = "idle"
                              /\ resp'.op = "customer.subscription.deleted"
                              /\ resp'.status = 200
                         ELSE /\ req'[w].pc = "deleted_set"
                              /\ \E i \in matching :
                                    /\ \A j \in matching : i <= j
                                    /\ req'[w].acct.client_id = account[i].client_id
        /\ (req[w].pc = "deleted_set" /\ req'[w].pc # "deleted_set") =>
              LET i == FindAccount(account', req[w].acct.client_id)
              IN  /\ i # 0
                  /\ account'[i].plan = "free"
                  /\ account'[i].subscription_status = req[w].payload.status
                  /\ Len(account') = Len(account)
                  /\ \A j \in 1..Len(account) : j # i => account'[j] = account[j]
                  /\ resp'.op = "customer.subscription.deleted"
                  /\ resp'.status = 200
      ]_vars

\* C10 witness: a deleted event for an id no account has was just
\* acknowledged, beside an account that an earlier deleted event set free.
C10_DeletedAcknowledged ==
    /\ resp.op = "customer.subscription.deleted"
    /\ resp.status = 200
    /\ \A w \in Workers : req[w].pc = "idle"
    /\ \E i \in 1..Len(account) :
          /\ account[i].plan = "free"
          /\ account[i].stripe_subscription_id = "sub_1"
          /\ account[i].subscription_status = "canceled"
    /\ \E i \in 1..Len(account) : account[i].plan = "pro"

\* No account has stored the subscription id s or the customer id k, an
\* absent id being stored by none.
NoAccountStores(s, k) ==
    \A i \in 1..Len(account) :
        /\ s # NoneVal => account[i].stripe_subscription_id # s
        /\ k # NoneVal => account[i].stripe_customer_id # k

\* C11 as stated: a checkout.session.completed event with no client
\* reference, and a subscription event (created, updated or deleted) whose
\* identifiers are absent or stored by no account, change no account
\* document.
C11_UnresolvableChangesNothing ==
    [][\A w \in Workers :
        /\ (req[w].pc = "idle" /\ resp'.op = "checkout.session.completed") =>
              \A s \in OrNone(SubscriptionIds), k \in OrNone(CustomerIds) :
                  WebhookCheckoutCompleted(w, NoneVal, NoneVal, s, k) =>
                      account' = account
        /\ (/\ req[w].pc = "subscription_set"
            /\ req'[w].pc # "subscription_set"
            /\ NoAccountStores(req[w].payload.sub_id, req[w].payload.cust_id)) =>
                  account' = account
        /\ (/\ req[w].pc = "deleted_set"
            /\ req'[w].pc # "deleted_set"
            /\ NoAccountStores(req[w].payload.sub_id, NoneVal)) =>
                  account' = account
      ]_vars

\* The fields of an account document other than its email.
SameButEmail(a, b) ==
    \A f \in DOMAIN a : f # "email" => a[f] = b[f]

\* C12.  init_account looks the client's account up.  Finding none, it
\* inserts one with plan free, the given email and no billing field, and
\* changes no other document.  Finding one, it changes nothing but that
\* document's email, and the email only when the account it found had none
\* and one is given; a call whose email is the stored one, as after a first
\* call with the same arguments, changes no field.
C12_InitCreatesOrTouches ==
    [][\A w \in Workers :
        /\ (req[w].pc = "idle" /\ req'[w].pc \in {"init_create", "init_update"}) =>
              /\ account' = account
              /\ (req'[w].pc = "init_create") <=>
                    (\A i \in 1..Len(account) :
                        account[i].client_id # req'[w].payload.client_id)
        /\ (req[w].pc = "init_create" /\ req'[w].pc # "init_create") =>
              /\ account' = Append(account,
                    [client_id |-> req[w].payload.client_id, plan |-> "free",
                     email |-> req[w].payload.email,
                     stripe_customer_id |-> NoneVal,
                     stripe_subscription_id |-> NoneVal,
                     subscription_status |-> NoneVal])
              /\ resp'.status = 200
              /\ resp'.plan = "free"
        /\ (req[w].pc = "init_update" /\ req'[w].pc # "init_update") =>
              LET c == req[w].payload.client_id
                  e == req[w].payload.email
                  fills == e # NoneVal /\ req[w].acct.email = NoneVal
                  i == CHOOSE j \in 1..Len(account) :
                          /\ account[j].client_id = c
                          /\ \A h \in 1..(j - 1) : account[h].client_id # c
              IN  /\ Len(account') = Len(account)
                  /\ \A j \in 1..Len(account) :
                        /\ SameButEmail(account'[j], account[j])
                        /\ j # i => account'[j] = account[j]
                  /\ account'[i].email = (IF fills THEN e ELSE account[i].email)
                  /\ account[i].email = e => account' = account
                  /\ resp'.status = 200
                  /\ resp'.plan = req[w].acct.plan
      ]_vars

\* C12 witness: init_account was just answered for an existing account that
\* is pro with a subscription id and an email, beside a free account of
\* another client with another email.
C12_InitOnProAccountKeepsEmail ==
    /\ resp.op = "init_account"
    /\ resp.plan = "pro"
    /\ \E i \in 1..Len(account) :
          /\ account[i].client_id = resp.client_id
          /\ account[i].plan = "pro"
          /\ account[i].stripe_subscription_id = "sub_1"
          /\ account[i].email = "b@x.io"
    /\ \E i \in 1..Len(account) :
          /\ account[i].client_id # resp.client_id
          /\ account[i].plan = "free"
          /\ account[i].email = "a@x.io"

\* C13.  upgrade_account for a client that has an account sets the plan of
\* the client's first account document to pro and changes nothing else; for
\* a client without one it goes on to insert an account of that client with
\* plan pro, changing no other document.  Either way it answers 200 with
\* plan pro, an account of the client then existing with plan pro.
C13_UpgradeForcesPro ==
    [][\A w \in Workers :
        /\ (req[w].pc = "idle" /\ (\/ req'[w].pc = "upgrade_create"
                                    \/ resp'.op = "upgrade_account")) =>
            \A c \in Clients :
              UpgradeAccountUpdate(w, c) =>
                  LET mine == {i \in 1..Len(account) : account[i].client_id = c}
                  IN  IF mine = {}
                      THEN /\ account' = account
                           /\ req'[w].pc = "upgrade_create"
                           /\ req'[w].payload.client_id = c
                      ELSE /\ req'[w].pc = "idle"
                           /\ Len(account') = Len(account)
                           /\ \E i \in mine :
                                 /\ \A j \in mine : i <= j
                                 /\ account'[i] = [account[i] EXCEPT !.plan = "pro"]
                                 /\ \A j \in 1..Len(account) :
                                       j # i => account'[j] = account[j]
                           /\ resp'.status = 200
                           /\ resp'.client_id = c
                           /\ resp'.plan = "pro"
        /\ (req[w].pc = "upgrade_create" /\ req'[w].pc # "upgrade_create") =>
              /\ Len(account') = Len(account) + 1
              /\ \A j \in 1..Len(account) : account'[j] = account[j]
              /\ account'[Len(account')].client_id = req[w].payload.client_id
              /\ account'[Len(account')].plan = "pro"
              /\ resp'.status = 200
              /\ resp'.client_id = req[w].payload.client_id
              /\ resp'.plan = "pro"
        /\ (resp'.op = "upgrade_account" /\ resp'.status = 200) =>
              \E i \in 1..Len(account') :
                  /\ account'[i].client_id = resp'.client_id
                  /\ account'[i].plan = "pro"
      ]_vars

\* C13 witness: upgrade_account was just answered for a client whose
\* account, created free by init_account with an email, is now pro, beside
\* a free account of another client.
C13_ExistingAccountUpgraded ==
    /\ resp.op = "upgrade_account"
    /\ \E i, j \in 1..Len(account) :
          /\ account[i].client_id = resp.client_id
          /\ account[i].plan = "pro"
          /\ account[i].email = "a@x.io"
          /\ account[i].stripe_subscription_id = NoneVal
          /\ account[j].client_id # resp.client_id
          /\ account[j].plan = "free"

\* The text k occurs in the text at some position.
OccursIn(k, text) ==
    \E i \in 1..Len(text) :
        /\ i + Len(k) - 1 <= Len(text)
        /\ \A j \in 1..Len(k) : text[i + j - 1] = k[j]

\* The titles of a suggestion batch, in order.
Titles(suggestions) ==
    [i \in 1..Len(suggestions) |-> suggestions[i].title]

\* A suggestions call of worker w returns in this step.
SuggestReturns(w) ==
    /\ req[w].pc = "suggest_add"
    /\ req'[w].pc = "idle"

\* ai / machine learning / chatbot / agent
CopilotKeywords ==
    {<<"a", "i">>,
     <<"m", "a", "c", "h", "i", "n", "e", " ", "l", "e", "a", "r", "n", "i", "n", "g">>,
     <<"c", "h", "a", "t", "b", "o", "t">>,
     <<"a", "g", "e", "n", "t">>}

\* marketplace / platform / connect
MarketplaceKeywords ==
    {<<"m", "a", "r", "k", "e", "t", "p", "l", "a", "c", "e">>,
     <<"p", "l", "a", "t", "f", "o", "r", "m">>,
     <<"c", "o", "n", "n", "e", "c", "t">>}

\* C14.  A suggestions call reads the answers of its session's messages,
\* joined with spaces and lower-cased.  For a business session its batch
\* has "Niche AI Copilot" exactly when ai, machine learning, chatbot or agent
\* occurs in that text, "Curated Micro-Marketplace" exactly when marketplace,
\* platform or connect does, and always "Service-to-Product Transition";
\* when no keyword occurs the batch is that default idea alone.
C14_BusinessKeywords ==
    [][\A w \in Workers :
        /\ (req[w].pc = "suggest_messages" /\ req'[w].pc = "suggest_add") =>
              LET msgs == MessagesOf(req[w].payload.session_id)
                  joined == Join([i \in 1..Len(msgs) |-> msgs[i].answer])
                  text == req'[w].answers
              IN  /\ Len(text) = Len(joined)
                  /\ \A i \in 1..Len(text) :
                        /\ \A n \in 1..Len(UpperCase) : text[i] # UpperCase[n]
                        /\ \/ text[i] = joined[i]
                           \/ \E n \in 1..Len(UpperCase) :
                                 /\ joined[i] = UpperCase[n]
                                 /\ text[i] = LowerCase[n]
        /\ (SuggestReturns(w) /\ req[w].payload.category = "business") =>
              LET text == req[w].answers
                  titles == Titles(resp'.suggestions)
                  has(t) == \E i \in 1..Len(titles) : titles[i] = t
                  copilot == \E k \in CopilotKeywords : OccursIn(k, text)
                  marketplace == \E k \in MarketplaceKeywords : OccursIn(k, text)
              IN  /\ has("Niche AI Copilot") <=> copilot
                  /\ has("Curated Micro-Marketplace") <=> marketplace
                  /\ has("Service-to-Product Transition")
                  /\ (~copilot /\ ~marketplace) =>
                        titles = <<"Service-to-Product Transition">>
      ]_vars

\* C14 witness: a business session answered "machine" then "learning focus"
\* was just suggested the copilot and the default idea.
C14_KeywordAcrossAnswers ==
    /\ resp.op = "get_suggestions"
    /\ Titles(resp.suggestions) =
          <<"Niche AI Copilot", "Service-to-Product Transition">>
    /\ Len(session) = 1
    /\ session[1].category = "business"
    /\ Len(message) = 2
    /\ message[1].answer = <<"m", "a", "c", "h", "i", "n", "e">>
    /\ message[2].answer = <<"l", "e", "a", "r", "n", "i", "n", "g", " ", "f", "o", "c", "u", "s">>

\* One text is a prefix of the other.
Comparable(a, b) ==
    \A i \in 1..Len(a) : i <= Len(b) => a[i] = b[i]

\* C15.  No step changes or removes a stored idea.  A step that adds one
\* adds exactly one, as the add_idea of a suggestions call, for that call's
\* session, and the call lists it next in its batch.  A call that returns
\* answers 200 with one entry per template firing on the answers it read,
\* each entry naming a distinct idea stored for its session with the entry's
\* title; and two calls on a session that read the same answers list the
\* same titles in the same order.
C15_IdeasAppendOnly ==
    [][/\ Len(idea') >= Len(idea)
       /\ \A i \in 1..Len(idea) : idea'[i] = idea[i]
       /\ Len(idea') # Len(idea) =>
            /\ Len(idea') = Len(idea) + 1
            /\ \E w \in Workers :
                  LET entry == [id |-> Len(idea'), title |-> idea'[Len(idea')].title]
                  IN  /\ req[w].pc = "suggest_add"
                      /\ idea'[Len(idea')].session_id = req[w].payload.session_id
                      /\ IF req'[w].pc = "idle"
                         THEN resp'.suggestions = Append(req[w].ideas, entry)
                         ELSE /\ req'[w].ideas = Append(req[w].ideas, entry)
                              /\ req'[w].answers = req[w].answers
                              /\ req'[w].payload = req[w].payload
       /\ \A w \in Workers :
            /\ (req[w].pc = "suggest_messages" /\ req'[w].pc = "suggest_add") =>
                  req'[w].ideas = << >>
            /\ SuggestReturns(w) =>
                  LET p == req[w].payload
                      batch == resp'.suggestions
                      m == Cardinality({i \in 1..Len(RULES[p.category]) :
                              Fires(RULES[p.category][i], req[w].answers)})
                  IN  /\ resp'.status = 200
                      /\ Len(batch) = m
                      /\ \A i, j \in 1..m : batch[i].id = batch[j].id => i = j
                      /\ \A i \in 1..m :
                            /\ batch[i].id \in 1..Len(idea')
                            /\ idea'[batch[i].id].session_id = p.session_id
                            /\ idea'[batch[i].id].title = batch[i].title
                      /\ \A v \in Workers \ {w} :
                            (/\ req[v].pc = "suggest_add"
                             /\ req[v].payload.session_id = p.session_id
                             /\ req[v].answers = req[w].answers) =>
                                Comparable(Titles(req[v].ideas), Titles(batch))
      ]_vars

\* C15 witness: after one answer, two suggestions calls one after the other
\* on a session each added the same two ideas in the same order, the second
\* call just answered.
C15_SameBatchTwice ==
    /\ resp.op = "get_suggestions"
    /\ Len(message) = 1
    /\ Len(idea) = 4
    /\ \A i \in 1..4 : idea[i].session_id = 1
    /\ idea[1].title # idea[2].title
    /\ idea[3].title = idea[1].title
    /\ idea[4].title = idea[2].title
    /\ resp.suggestions = <<[id |-> 3, title |-> idea[3].title],
                            [id |-> 4, title |-> idea[4].title]>>

\* C16.  next_question, submit_answer and get_suggestions called with a
\* session id that no stored session has answer 404 at once, and the session,
\* message and idea collections are left as they were.
C16_UnknownSessionNotFound ==
    [][\A w \in Workers :
        (/\ req[w].pc = "idle"
         /\ \/ resp'.op \in {"next_question", "submit_answer", "get_suggestions"}
            \/ req'[w].pc \in {"submit_store", "suggest_messages"}) =>
            \A sid \in SessionIds \ (1..Len(session)) :
                (\/ NextQuestion(w, sid)
                 \/ \E a \in Answers : SubmitLoad(w, sid, a)
                 \/ SuggestLoadSession(w, sid)) =>
                    /\ resp'.status = 404
                    /\ req'[w].pc = "idle"
                    /\ session' = session
                    /\ message' = message
                    /\ idea' = idea
      ]_vars

\* C16 witness: get_suggestions for an unknown session was just answered
\* 404 while a session, a message and an idea are stored.
C16_SuggestionsNotFound ==
    /\ resp.op = "get_suggestions"
    /\ resp.status = 404
    /\ Len(session) >= 1
    /\ Len(message) >= 1
    /\ Len(idea) >= 1

\* C17 as stated: in every step, every session's step stays or moves up by
\* exactly one.
C17_StepMovesByOne ==
    [][\A sid \in 1..Len(session) :
          \/ session'[sid].step = session[sid].step
          \/ session'[sid].step = session[sid].step + 1]_vars

\* C18 as stated: when no submit call is under way on a session, its step
\* is the number of submissions accepted for it, each of which stored one
\* message.
C18_NoLostStep ==
    \A sid \in 1..Len(session) :
        ~SubmitInFlight(sid) => session[sid].step = Len(MessagesOf(sid))

\* The messages stored for session sid with step n.
MessagesAt(col, sid, n) ==
    {i \in 1..Len(col) : col[i].session_id = sid /\ col[i].step = n}

\* C19.  When a submit call stores its message while another call that
\* loaded the same session at the same step has stored its own and not yet
\* written the step, the store then holds two messages of that session with
\* that step, the session still being at that step.
C19_OverlappingSubmitsDuplicate ==
    [][\A w, v \in Workers :
        (/\ w # v
         /\ req[w].pc = "submit_store"
         /\ req'[w].pc = "submit_increment"
         /\ req[v].pc = "submit_increment"
         /\ req[v].payload.session_id = req[w].payload.session_id
         /\ req[v].step = req[w].step) =>
            /\ Cardinality(MessagesAt(message', req[w].payload.session_id,
                                      req[w].step)) >= 2
            /\ session'[req[w].payload.session_id].step = req[w].step
      ]_vars

\* C19 witness: both workers have stored a message for the same session at
\* the same step, neither has written the step, and the store holds two
\* messages of that session with that step.
C19_DuplicateStepLogged ==
    /\ req["w1"].pc = "submit_increment"
    /\ req["w2"].pc = "submit_increment"
    /\ req["w1"].payload.session_id = req["w2"].payload.session_id
    /\ req["w1"].step = req["w2"].step
    /\ session[req["w1"].payload.session_id].step = req["w1"].step
    /\ Cardinality(MessagesAt(message, req["w1"].payload.session_id,
                              req["w1"].step)) = 2

\* video / youtube / tiktok / shorts
VideoKeywords ==
    {<<"v", "i", "d", "e", "o">>,
     <<"y", "o", "u", "t", "u", "b", "e">>,
     <<"t", "i", "k", "t", "o", "k">>,
     <<"s", "h", "o", "r", "t", "s">>}

\* newsletter / writing / blog
NewsletterKeywords ==
    {<<"n", "e", "w", "s", "l", "e", "t", "t", "e", "r">>,
     <<"w", "r", "i", "t", "i", "n", "g">>,
     <<"b", "l", "o", "g">>}

\* time / schedule / focus
TimeKeywords ==
    {<<"t", "i", "m", "e">>,
     <<"s", "c", "h", "e", "d", "u", "l", "e">>,
     <<"f", "o", "c", "u", "s">>}

\* The title, when one of the keywords occurs in the text.
TitleIf(keywords, text, title) ==
    IF \E k \in keywords : OccursIn(k, text) THEN <<title>> ELSE << >>

\* C20.  The batch of a suggestions call lists, for the answers the call
\* read, every template that fires and no other, in the order the rules are
\* declared: for business and content the two conditional templates, then
\* the default; for general the default, then the conditional template.  It
\* is never empty.
C20_FiringOrder ==
    [][\A w \in Workers :
        SuggestReturns(w) =>
            LET text == req[w].answers
                category == req[w].payload.category
                titles == Titles(resp'.suggestions)
            IN  /\ titles # << >>
                /\ category = "business" =>
                      titles = TitleIf(CopilotKeywords, text, "Niche AI Copilot")
                               \o TitleIf(MarketplaceKeywords, text,
                                          "Curated Micro-Marketplace")
                               \o <<"Service-to-Product Transition">>
                /\ category = "content" =>
                      titles = TitleIf(VideoKeywords, text, "30-Day Video Sprint")
                               \o TitleIf(NewsletterKeywords, text,
                                          "Opinionated Weekly Newsletter")
                               \o <<"Theme + Pillars System">>
                /\ category = "general" =>
                      titles = <<"Obstacle Breakdown">>
                               \o TitleIf(TimeKeywords, text, "Time-Boxed Progress")
      ]_vars

\* C20 witness: a general session was just suggested its default idea
\* first and its conditional idea second.
C20_GeneralDefaultFirst ==
    /\ resp.op = "get_suggestions"
    /\ Titles(resp.suggestions) = <<"Obstacle Breakdown", "Time-Boxed Progress">>
    /\ \E sid \in 1..Len(session) : session[sid].category = "general"

\* C21.  Every session has at least as many messages stored as its step.
C21_MessagesCoverStep ==
    \A sid \in 1..Len(session) :
        Len(MessagesOf(sid)) >= session[sid].step

\* C21 witness: after overlapping submit calls, none under way, a session
\* at step 1 has two messages.
C21_MoreMessagesThanStep ==
    \E sid \in 1..Len(session) :
        /\ ~SubmitInFlight(sid)
        /\ session[sid].step = 1
        /\ Len(MessagesOf(sid)) = 2

\* C22 as stated: no client has two sessions with plan snapshot free
\* created on the same UTC day.
C22_OneFreeSessionPerDay ==
    \A i, j \in 1..Len(session) :
        (/\ session[i].client_id = session[j].client_id
         /\ session[i].plan = "free"
         /\ session[j].plan = "free"
         /\ session[i].created_at = session[j].created_at) => i = j

\* Where a worker is inside init_account, upgrade_account or stripe_webhook.
AccountPcs ==
    {"init_create", "init_update", "upgrade_create", "subscription_set", "deleted_set"}

\* What the responses of those three requests are labelled with.
AccountOps ==
    {"init_account", "upgrade_account", "stripe_webhook", "other",
     "checkout.session.completed", "customer.subscription.updated",
     "customer.subscription.deleted"}

\* The step is one of init_account, upgrade_account or stripe_webhook.
AccountStep ==
    \E w \in Workers :
        \/ req[w].pc \in AccountPcs /\ req'[w] # req[w]
        \/ /\ req[w].pc = "idle"
           /\ req'[w].pc \in AccountPcs \/ resp'.op \in AccountOps

\* C23.  A step of init_account, upgrade_account or stripe_webhook leaves
\* the session, message and idea collections as they were.  No step at all
\* changes the plan snapshot of a stored session, and the snapshot a new
\* session gets is the plan start_session read from the client's account.
C23_AccountRequestsLeaveSessions ==
    [][/\ AccountStep =>
            /\ session' = session
            /\ message' = message
            /\ idea' = idea
       /\ Len(session') >= Len(session)
       /\ \A sid \in 1..Len(session) : session'[sid].plan = session[sid].plan
       /\ Len(session') # Len(session) =>
            \E w \in Workers :
                /\ req[w].pc = "start_create"
                /\ session'[Len(session')].plan = req[w].plan
       /\ \A w \in Workers :
            (/\ req[w].pc \in {"idle", "start_refind"}
             /\ req'[w].pc \in {"start_quota", "start_create"}) =>
                \E i \in 1..Len(account) :
                    /\ account[i].client_id = req'[w].payload.client_id
                    /\ \A h \in 1..(i - 1) :
                          account[h].client_id # req'[w].payload.client_id
                    /\ req'[w].plan = account[i].plan
      ]_vars

\* C23 witness: a subscription event was just handled that set the account
\* free with status canceled, while the client has a session with snapshot
\* free and a later one with snapshot pro, a message and an idea.
C23_SnapshotsOutliveThePlan ==
    /\ resp.op = "customer.subscription.updated"
    /\ \E i \in 1..Len(account) :
          /\ account[i].client_id = "client-a"
          /\ account[i].plan = "free"
          /\ account[i].subscription_status = "canceled"
    /\ Len(session) = 2
    /\ session[1].plan = "free"
    /\ session[2].plan = "pro"
    /\ Len(message) >= 1
    /\ Len(idea) >= 1

====
